---- MODULE Spec2Model ----
(***************************************************************************)
(* Model of the restaurant ingestion pipeline of restaurant-map:           *)
(* airflow/dags/utils/task_functions.py (GooglePlacesAPIClient,            *)
(* DataFormatter, RestaurantDataProcessor, add_quota_counter, main).       *)
(*                                                                         *)
(* Python values are represented as follows.                               *)
(*   - a dict is a function whose domain is the set of keys present;       *)
(*   - a list is a sequence;                                               *)
(*   - a string that the code only stores or compares is a TLA+ string,    *)
(*     and None in such a position is the value None below;                *)
(*   - a string that the code takes apart (an address, an hours            *)
(*     description line) is a sequence of one-character strings; Str       *)
(*     turns the result back into a TLA+ string when it is stored.  The    *)
(*     code only tests such a value and the lists for truthiness, so an    *)
(*     absent one (None) is the empty sequence, like the empty one;        *)
(*   - a JSON number is the text str() gives for it.                       *)
(***************************************************************************)
EXTENDS Integers, Sequences, FiniteSets, TLC

VARIABLES
    db,                     \* the committed rows of the four tables
    id_seq,                 \* last value of the restaurants.id sequence
    clock,                  \* CURRENT_TIMESTAMP, one tick per process_and_store call
    pc,                     \* position of main(): idle, loop, done, aborted
    reconciled,             \* what get_restaurants_to_insert returned in this run
    restaurants_to_insert,  \* the names main() still has to loop over
    attempted,              \* names process_and_store was called for in this run
    last,                   \* the last process_and_store call: its inputs, how it
                            \* ended, whether its google_id was stored before it
                            \* and whether it repeated the commit before it
    arguments,              \* what a function checked on its own was called with
    returned                \* and what it returned

\* the variables of the run of main()
pipeline_vars ==
    <<db, id_seq, clock, pc, reconciled, restaurants_to_insert, attempted, last>>

\* the variables of the functions checked on their own
function_vars == <<arguments, returned>>

vars == <<db, id_seq, clock, pc, reconciled, restaurants_to_insert, attempted, last,
          arguments, returned>>

\* Number of process_and_store calls a behaviour may hold.
MaxCalls == 2

\* Longest name list extract_google_maps_names returns.
MaxNames == 2

----------------------------------------------------------------------------
\* Python helpers

None == "<None>"

EmptyDict == <<>>

NoneSeq == <<>>

THIN == "<u2009>"

NL == "<n>"

ENDASH == "<u2013>"

\* dict.get(k, default)
Get(d, k, default) == IF k \in DOMAIN d THEN d[k] ELSE default

\* str(v) of a JSON number (kept as its text) or of None
str(v) == IF v = None THEN "None" ELSE v

\* truthiness of an Optional[str] kept as a TLA+ string
Truthy(v) == v # None /\ v # ""

RECURSIVE Str(_)
\* the sequence of characters s as a TLA+ string
Str(s) == IF s = <<>> THEN "" ELSE s[1] \o Str(Tail(s))

DigitChar == <<"0", "1", "2", "3", "4", "5", "6", "7", "8", "9">>

RECURSIVE IntStr(_)
\* str(n) of an int n >= 0
IntStr(n) == IF n < 10 THEN DigitChar[n + 1]
             ELSE IntStr(n \div 10) \o DigitChar[(n % 10) + 1]

\* the string left as it is, whatever the width
zfill_unpadded(s, width) == s

RECURSIVE zfill(_, _)
\* str.zfill(width)
zfill(s, width) == IF Len(s) >= width THEN s ELSE zfill("0" \o s, width)

RECURSIVE Join(_, _)
\* sep.join(parts) on sequences of characters
Join(parts, sep) ==
    IF parts = <<>> THEN <<>>
    ELSE IF Len(parts) = 1 THEN parts[1]
    ELSE parts[1] \o sep \o Join(Tail(parts), sep)

RECURSIVE FlatMap(_, _)
\* every element c of s replaced by the sequence f[c]
FlatMap(s, f) == IF s = <<>> THEN <<>> ELSE f[s[1]] \o FlatMap(Tail(s), f)

----------------------------------------------------------------------------
\* DataFormatter

format_opening_hours_description(opening_hours_description) ==
    IF opening_hours_description = NoneSeq THEN None
    ELSE LET joined == Join(opening_hours_description, <<NL>>)
             chars == {joined[i] : i \in DOMAIN joined}
             cleaned == FlatMap(joined,
                           [c \in chars |-> IF c = THIN THEN <<>>
                                            ELSE IF c = NL THEN <<",", " ">>
                                            ELSE <<c>>])
         IN Str(cleaned)

weekday_names == [i \in 0..6 |->
    <<"Domingo", "Segunda-feira", "Terça-feira", "Quarta-feira",
      "Quinta-feira", "Sexta-feira", "Sábado">>[i + 1]]

format_day_name(day_number) == Get(weekday_names, day_number, None)

period_entry(period, restaurant_id) ==
    LET open_data == Get(period, "open", EmptyDict)
        day_of_week == Get(open_data, "day", 0)
        open_hour == zfill(IntStr(Get(open_data, "hour", 0)), 2)
        open_minute == zfill(IntStr(Get(open_data, "minute", 0)), 2)
        close_data == Get(period, "close", EmptyDict)
        close_hour == zfill(IntStr(Get(close_data, "hour", 0)), 2)
        close_minute == zfill(IntStr(Get(close_data, "minute", 0)), 2)
    IN [restaurant_id |-> restaurant_id,
        day_of_the_week |-> format_day_name(day_of_week),
        opens_at |-> open_hour \o ":" \o open_minute,
        closes_at |-> close_hour \o ":" \o close_minute,
        is_opened |-> TRUE]

closed_day_entry(day_of_week, restaurant_id) ==
    [restaurant_id |-> restaurant_id,
     day_of_the_week |-> format_day_name(day_of_week),
     opens_at |-> None,
     closes_at |-> None,
     is_opened |-> FALSE]

opened_days(opening_hours_periods) ==
    {opening_hours_periods[i].open.day : i \in
        {j \in DOMAIN opening_hours_periods :
            /\ DOMAIN Get(opening_hours_periods[j], "open", EmptyDict) # {}
            /\ "day" \in DOMAIN opening_hours_periods[j].open}}

RECURSIVE closed_days(_, _, _)
\* the entries of the days day_of_week..6 that are not opened
closed_days(day_of_week, opened, restaurant_id) ==
    IF day_of_week > 6 THEN <<>>
    ELSE (IF day_of_week \notin opened
          THEN <<closed_day_entry(day_of_week, restaurant_id)>>
          ELSE <<>>) \o closed_days(day_of_week + 1, opened, restaurant_id)

format_opening_hours_periods(opening_hours_periods, restaurant_id) ==
    IF opening_hours_periods = NoneSeq THEN <<>>
    ELSE [i \in DOMAIN opening_hours_periods |->
              period_entry(opening_hours_periods[i], restaurant_id)]
         \o closed_days(0, opened_days(opening_hours_periods), restaurant_id)

----------------------------------------------------------------------------
\* Characters and the str methods parse_street_name uses

Whitespace == {" ", THIN, NL}

Digits == {"0", "1", "2", "3", "4", "5", "6", "7", "8", "9"}

AsciiUpper == {"A", "B", "C", "D", "E", "F", "G", "H", "I", "J", "K", "L", "M",
               "N", "O", "P", "Q", "R", "S", "T", "U", "V", "W", "X", "Y", "Z"}

AsciiLower == {"a", "b", "c", "d", "e", "f", "g", "h", "i", "j", "k", "l", "m",
               "n", "o", "p", "q", "r", "s", "t", "u", "v", "w", "x", "y", "z"}

AsciiLetters == AsciiUpper \cup AsciiLower

\* the non-ASCII letters of the addresses modelled
OtherLetters == {"ã", "ç", "á", "é", "í", "ó", "ú", "â", "ê", "ô", "õ"}

\* \w of a str pattern
WordChars == AsciiLetters \cup OtherLetters \cup Digits \cup {"_"}

MinOf(S) == CHOOSE i \in S : \A j \in S : i <= j

MaxOf(S) == CHOOSE i \in S : \A j \in S : i >= j

\* s[a:] with a counted from 1
From(s, a) == SubSeq(s, a, Len(s))

RECURSIVE lstrip(_, _)
lstrip(s, cs) == IF s # <<>> /\ s[1] \in cs THEN lstrip(Tail(s), cs) ELSE s

RECURSIVE rstrip(_, _)
rstrip(s, cs) == IF s # <<>> /\ s[Len(s)] \in cs
                 THEN rstrip(SubSeq(s, 1, Len(s) - 1), cs) ELSE s

\* s.strip()
strip(s) == lstrip(rstrip(s, Whitespace), Whitespace)

\* s.strip(' ,')
strip_chars(s, cs) == lstrip(rstrip(s, cs), cs)

startswith(s, prefix) ==
    Len(prefix) <= Len(s) /\ SubSeq(s, 1, Len(prefix)) = prefix

\* the places where sub occurs in s
Occurrences(s, sub) ==
    {i \in 1..(Len(s) - Len(sub) + 1) : SubSeq(s, i, i + Len(sub) - 1) = sub}

RECURSIVE split(_, _)
\* s.split(c) for a character c
split(s, c) ==
    LET at == {i \in DOMAIN s : s[i] = c}
    IN IF at = {} THEN <<s>>
       ELSE <<SubSeq(s, 1, MinOf(at) - 1)>> \o split(From(s, MinOf(at) + 1), c)

RECURSIVE split_ws(_)
\* s.split()
split_ws(s) ==
    LET t == lstrip(s, Whitespace)
        ws == {i \in DOMAIN t : t[i] \in Whitespace}
    IN IF t = <<>> THEN <<>>
       ELSE IF ws = {} THEN <<t>>
       ELSE <<SubSeq(t, 1, MinOf(ws) - 1)>> \o split_ws(From(t, MinOf(ws)))

RECURSIVE remove_all(_, _)
\* s.replace(old, '') for a non-empty old
remove_all(s, old) ==
    IF Len(s) < Len(old) THEN s
    ELSE IF startswith(s, old) THEN remove_all(From(s, Len(old) + 1), old)
    ELSE <<s[1]>> \o remove_all(Tail(s), old)

\* re.sub(r'^\s*-\s*', '', s)
sub_leading_dash(s) ==
    LET t == lstrip(s, Whitespace)
    IN IF t # <<>> /\ t[1] = "-" THEN lstrip(Tail(t), Whitespace) ELSE s

\* re.sub(r'^\s*-\s*|\s*-\s*$', '', s)
sub_both_dashes(s) ==
    LET a == sub_leading_dash(s)
        t == rstrip(a, Whitespace)
    IN IF t # <<>> /\ t[Len(t)] = "-"
       THEN rstrip(SubSeq(t, 1, Len(t) - 1), Whitespace) ELSE a

\* the longest prefix of s made of characters of cs
span(s, cs) ==
    LET stop == {i \in DOMAIN s : s[i] \notin cs}
    IN IF stop = {} THEN Len(s) ELSE MinOf(stop) - 1

\* how much of s the pattern \d+[A-Za-z]? takes at its start (0: no match)
number_prefix(s) ==
    LET d == span(s, Digits)
    IN IF d = 0 THEN 0
       ELSE IF d < Len(s) /\ s[d + 1] \in AsciiLetters THEN d + 1 ELSE d

----------------------------------------------------------------------------
\* DataFormatter.parse_street_name

EmptyAddress ==
    [street_type |-> None, street_name |-> None, street_number |-> None,
     street_complement |-> None, street_neighborhood |-> None,
     postalcode |-> None, city |-> None, state |-> None, country |-> None]

street_types ==
    <<<<"A","v","e","n","i","d","a">>,
      <<"R","u","a">>,
      <<"A","l","a","m","e","d","a">>,
      <<"T","r","a","v","e","s","s","a">>,
      <<"P","r","a","ç","a">>,
      <<"R","o","d","o","v","i","a">>,
      <<"E","s","t","r","a","d","a">>,
      <<"V","i","e","l","a">>,
      <<"L","a","r","g","o">>,
      <<"B","e","c","o">>,
      <<"A","v",".">>,
      <<"A","l",".">>,
      <<"R",".">>,
      <<"T","v",".">>,
      <<"P","ç",".">>>>

\* the country read without cutting it off the address: the steps that
\* follow see its text again
extract_country_not_consumed(st) ==
    LET address == st.address
        commas == {i \in DOMAIN address : address[i] = ","}
        at == MaxOf(commas)
        rest == From(address, at + 1)
        skipped == lstrip(rest, Whitespace)
        group1 == IF skipped = <<>> THEN <<rest[Len(rest)]>> ELSE skipped
    IN IF commas # {} /\ rest # <<>>
       THEN [address |-> address,
             result |-> [st.result EXCEPT !.country = Str(strip(group1))]]
       ELSE st

\* re.search(r',\s*([^,]+)$', address): only the last comma can match, and
\* does when something follows it
extract_country(st) ==
    LET address == st.address
        commas == {i \in DOMAIN address : address[i] = ","}
        at == MaxOf(commas)
        rest == From(address, at + 1)
        skipped == lstrip(rest, Whitespace)
        group1 == IF skipped = <<>> THEN <<rest[Len(rest)]>> ELSE skipped
    IN IF commas # {} /\ rest # <<>>
       THEN [address |-> strip(SubSeq(address, 1, at - 1)),
             result |-> [st.result EXCEPT !.country = Str(strip(group1))]]
       ELSE st

\* the length of the match of \b(\d{5}-?\d{3})\b at place i of s, 0 if none
postalcode_match(s, i) ==
    LET dash == i + 5 <= Len(s) /\ s[i + 5] = "-"
        j == IF dash THEN i + 6 ELSE i + 5
    IN IF /\ i = 1 \/ s[i - 1] \notin WordChars
          /\ j + 2 <= Len(s)
          /\ \A k \in i..(i + 4) : s[k] \in Digits
          /\ \A k \in j..(j + 2) : s[k] \in Digits
          /\ j + 2 = Len(s) \/ s[j + 3] \notin WordChars
       THEN j + 3 - i ELSE 0

\* the postal code kept as it was matched, dash included
extract_postalcode_with_dash(st) ==
    LET address == st.address
        starts == {i \in DOMAIN address : postalcode_match(address, i) > 0}
        at == MinOf(starts)
        group0 == SubSeq(address, at, at + postalcode_match(address, at) - 1)
    IN IF starts # {}
       THEN [address |-> strip_chars(remove_all(address, group0), {" ", ","}),
             result |-> [st.result EXCEPT !.postalcode = Str(group0)]]
       ELSE st

\* the postal code: the first 00000-000 or 00000000, stored without dash and
\* taken out of the address wherever it occurs
extract_postalcode(st) ==
    LET address == st.address
        starts == {i \in DOMAIN address : postalcode_match(address, i) > 0}
        at == MinOf(starts)
        group0 == SubSeq(address, at, at + postalcode_match(address, at) - 1)
    IN IF starts # {}
       THEN [address |-> strip_chars(remove_all(address, group0), {" ", ","}),
             result |-> [st.result EXCEPT
                            !.postalcode = Str(remove_all(group0, <<"-">>))]]
       ELSE st

\* -\s*([A-Z]{2})\s*,?\s*$ matches at place i of s
state_match(s, i) ==
    /\ s[i] = "-"
    /\ LET r == lstrip(From(s, i + 1), Whitespace)
       IN /\ Len(r) >= 2
          /\ r[1] \in AsciiUpper
          /\ r[2] \in AsciiUpper
          /\ LET t == lstrip(From(r, 3), Whitespace)
             IN \/ t = <<>>
                \/ t[1] = "," /\ lstrip(Tail(t), Whitespace) = <<>>

extract_state(st) ==
    LET address == st.address
        starts == {i \in DOMAIN address : state_match(address, i)}
        at == MinOf(starts)
        r == lstrip(From(address, at + 1), Whitespace)
    IN IF starts # {}
       THEN [address |-> strip(SubSeq(address, 1, at - 1)),
             result |-> [st.result EXCEPT !.state = Str(SubSeq(r, 1, 2))]]
       ELSE st

\* the city taken without the test `if address:`: an address left empty
\* gets the city ''
extract_city_unguarded(st) ==
    LET parts_temp == split(st.address, ",")
    IN [address |-> strip(Join(SubSeq(parts_temp, 1, Len(parts_temp) - 1),
                               <<",">>)),
        result |-> [st.result EXCEPT
                       !.city = Str(strip(parts_temp[Len(parts_temp)]))]]

\* the city: what follows the last comma of what is left
extract_city(st) ==
    LET parts_temp == split(st.address, ",")
    IN IF st.address # <<>>
       THEN [address |-> strip(Join(SubSeq(parts_temp, 1, Len(parts_temp) - 1),
                                    <<",">>)),
             result |-> [st.result EXCEPT
                            !.city = Str(strip(parts_temp[Len(parts_temp)]))]]
       ELSE st

RECURSIVE non_empty_parts(_)
\* [p.strip() for p in parts if p.strip()]
non_empty_parts(parts) ==
    IF parts = <<>> THEN <<>>
    ELSE (IF strip(parts[1]) # <<>> THEN <<strip(parts[1])>> ELSE <<>>)
         \o non_empty_parts(Tail(parts))

\* the street with the name left as it follows the type, not stripped
extract_street_unstripped(first_part, result) ==
    LET found == {i \in DOMAIN street_types :
                     startswith(first_part, street_types[i])}
        st_type == street_types[MinOf(found)]
    IN IF found # {}
       THEN [result EXCEPT
                !.street_type = Str(st_type),
                !.street_name = Str(From(first_part, Len(st_type) + 1))]
       ELSE [result EXCEPT !.street_name = Str(first_part)]

\* the first part: street type + street name
extract_street(first_part, result) ==
    LET found == {i \in DOMAIN street_types :
                     startswith(first_part, street_types[i])}
        st_type == street_types[MinOf(found)]
    IN IF found # {}
       THEN [result EXCEPT
                !.street_type = Str(st_type),
                !.street_name = Str(strip(strip(From(first_part,
                                                     Len(st_type) + 1))))]
       ELSE [result EXCEPT !.street_name = Str(strip(first_part))]

\* the number with what follows it in its segment dropped, not put back
\* in parts
extract_number_rest_dropped(parts, result) ==
    LET potential_number == strip(sub_leading_dash(strip(parts[1])))
        n == number_prefix(potential_number)
        after == lstrip(From(potential_number, n + 1), Whitespace)
        spaces == Len(potential_number) - n - Len(after)
    IN IF parts = <<>> THEN [parts |-> parts, result |-> result]
       ELSE IF n > 0 /\ n = Len(potential_number)
       THEN [parts |-> Tail(parts),
             result |-> [result EXCEPT !.street_number = Str(potential_number)]]
       ELSE IF n > 0 /\ (after[1] = "-" \/ spaces > 0)
       THEN [parts |-> Tail(parts),
             result |-> [result EXCEPT
                            !.street_number = Str(SubSeq(potential_number, 1, n))]]
       ELSE [parts |-> parts, result |-> result]

\* the second part, which should be the number: [parts, result]
extract_number(parts, result) ==
    LET potential_number == strip(sub_leading_dash(strip(parts[1])))
        n == number_prefix(potential_number)
        after == lstrip(From(potential_number, n + 1), Whitespace)
        spaces == Len(potential_number) - n - Len(after)
    IN IF parts = <<>> THEN [parts |-> parts, result |-> result]
       ELSE IF n > 0 /\ n = Len(potential_number)
       THEN [parts |-> Tail(parts),
             result |-> [result EXCEPT !.street_number = Str(potential_number)]]
       ELSE IF n > 0 /\ after # <<>> /\ after[1] = "-"
                     /\ lstrip(Tail(after), Whitespace) # <<>>
       THEN [parts |-> <<lstrip(Tail(after), Whitespace)>> \o Tail(parts),
             result |-> [result EXCEPT
                            !.street_number = Str(SubSeq(potential_number, 1, n))]]
       ELSE IF n > 0 /\ spaces > 0 /\ after # <<>>
       THEN [parts |-> <<after>> \o Tail(parts),
             result |-> [result EXCEPT
                            !.street_number = Str(SubSeq(potential_number, 1, n))]]
       ELSE [parts |-> parts, result |-> result]

\* the complement: what is left of parts, dashes removed at both ends
RECURSIVE complement_parts(_)
complement_parts(parts) ==
    IF parts = <<>> THEN <<>>
    ELSE (IF strip(sub_both_dashes(parts[1])) # <<>>
          THEN <<strip(sub_both_dashes(parts[1]))>> ELSE <<>>)
         \o complement_parts(Tail(parts))

\* the neighborhood split at the first ' - ' of the last part, not the last
extract_neighborhood_first_dash(parts, result) ==
    LET last_part == strip(sub_leading_dash(strip(parts[Len(parts)])))
        dashes == Occurrences(last_part, <<" ", "-", " ">>)
        last_dash == MinOf(dashes)
        before_dash == strip(SubSeq(last_part, 1, last_dash - 1))
        front == SubSeq(parts, 1, Len(parts) - 1)
        left == IF dashes # {} /\ before_dash # <<>>
                THEN front \o <<before_dash>> ELSE front
        neighborhood == IF dashes # {}
                        THEN strip(From(last_part, last_dash + 3))
                        ELSE last_part
        complement == complement_parts(left)
    IN IF parts = <<>> THEN result
       ELSE [result EXCEPT
                !.street_neighborhood = Str(neighborhood),
                !.street_complement =
                    IF complement # <<>>
                    THEN Str(Join(complement, <<" ", "-", " ">>))
                    ELSE None]

\* the remaining parts: the last is the neighborhood, the others the complement
extract_neighborhood(parts, result) ==
    LET last_part == strip(sub_leading_dash(strip(parts[Len(parts)])))
        dashes == Occurrences(last_part, <<" ", "-", " ">>)
        last_dash == MaxOf(dashes)
        before_dash == strip(SubSeq(last_part, 1, last_dash - 1))
        front == SubSeq(parts, 1, Len(parts) - 1)
        left == IF dashes # {} /\ before_dash # <<>>
                THEN front \o <<before_dash>> ELSE front
        neighborhood == IF dashes # {}
                        THEN strip(From(last_part, last_dash + 3))
                        ELSE last_part
        complement == complement_parts(left)
    IN IF parts = <<>> THEN result
       ELSE [result EXCEPT
                !.street_neighborhood = Str(neighborhood),
                !.street_complement =
                    IF complement # <<>>
                    THEN Str(Join(complement, <<" ", "-", " ">>))
                    ELSE None]

parse_street_name(address) ==
    IF address = NoneSeq THEN EmptyAddress
    ELSE LET collapsed == Join(split_ws(address), <<" ">>)
             st == extract_city(extract_state(extract_postalcode(extract_country(
                       [address |-> collapsed, result |-> EmptyAddress]))))
             parts == non_empty_parts(split(st.address, ","))
             numbered == extract_number(Tail(parts),
                                        extract_street(parts[1], st.result))
         IN IF st.address = <<>> \/ parts = <<>> THEN st.result
            ELSE extract_neighborhood(numbered.parts, numbered.result)

----------------------------------------------------------------------------
\* parse_street_name of the migration script: the text of the function is
\* that of DataFormatter.parse_street_name except for its list street_types,
\* so its steps are the operators above except for the street

\* the street types of the migration script with 'Rua' left out
migration_street_types_without_rua ==
    <<<<"A","v","e","n","i","d","a">>,
      <<"A","l","a","m","e","d","a">>,
      <<"T","r","a","v","e","s","s","a">>,
      <<"P","r","a","ç","a">>,
      <<"R","o","d","o","v","i","a">>,
      <<"E","s","t","r","a","d","a">>,
      <<"V","i","e","l","a">>,
      <<"L","a","r","g","o">>,
      <<"B","e","c","o">>,
      <<"A","v",".">>,
      <<"A","l",".">>,
      <<"R",".">>,
      <<"T","v",".">>>>

\* street_types of the migration script
migration_street_types ==
    <<<<"A","v","e","n","i","d","a">>,
      <<"R","u","a">>,
      <<"A","l","a","m","e","d","a">>,
      <<"T","r","a","v","e","s","s","a">>,
      <<"P","r","a","ç","a">>,
      <<"R","o","d","o","v","i","a">>,
      <<"E","s","t","r","a","d","a">>,
      <<"V","i","e","l","a">>,
      <<"L","a","r","g","o">>,
      <<"B","e","c","o">>,
      <<"A","v",".">>,
      <<"A","l",".">>,
      <<"R",".">>,
      <<"T","v",".">>>>

\* the first part in the migration script: street type + street name
migration_extract_street(first_part, result) ==
    LET found == {i \in DOMAIN migration_street_types :
                     startswith(first_part, migration_street_types[i])}
        st_type == migration_street_types[MinOf(found)]
    IN IF found # {}
       THEN [result EXCEPT
                !.street_type = Str(st_type),
                !.street_name = Str(strip(strip(From(first_part,
                                                     Len(st_type) + 1))))]
       ELSE [result EXCEPT !.street_name = Str(strip(first_part))]

\* parse_street_name(address) of the migration script
migration_parse_street_name(address) ==
    IF address = NoneSeq THEN EmptyAddress
    ELSE LET collapsed == Join(split_ws(address), <<" ">>)
             st == extract_city(extract_state(extract_postalcode(extract_country(
                       [address |-> collapsed, result |-> EmptyAddress]))))
             parts == non_empty_parts(split(st.address, ","))
             numbered == extract_number(Tail(parts),
                            migration_extract_street(parts[1], st.result))
         IN IF st.address = <<>> \/ parts = <<>> THEN st.result
            ELSE extract_neighborhood(numbered.parts, numbered.result)

----------------------------------------------------------------------------
\* The Google Places API: what the two requests of get_place_details answer

GoogleIds == {"ChIJ-1", "ChIJ-2"}

Names == {"Bar X", "Cantina Y"}

Period(day, open_hour, open_minute, close_hour, close_minute) ==
    [open |-> [day |-> day, hour |-> open_hour, minute |-> open_minute],
     close |-> [day |-> day, hour |-> close_hour, minute |-> close_minute]]

\* a place with every field of the field mask
PlaceFull ==
    [displayName |-> [text |-> "Bar X - Augusta"],
     formattedAddress |->
        <<"R","u","a"," ","A","u","g","u","s","t","a",","," ","1","2","3"," ","-"," ","C","o","n","s","o","l","a","ç","ã","o",","," ","S","ã","o"," ","P","a","u","l","o"," ","-"," ","S","P",","," ","0","1","3","0","5","-","0","0","0",","," ","B","r","a","s","i","l">>,
     location |-> [latitude |-> "-23.5534", longitude |-> "-46.6577"],
     googleMapsUri |-> "https://maps.google.com/?cid=1",
     types |-> <<"bar", "restaurant">>,
     primaryTypeDisplayName |-> [text |-> "Bar"],
     websiteUri |-> "https://barx.example",
     regularOpeningHours |->
        [periods |-> <<Period(1, 10, 0, 22, 0), Period(5, 18, 30, 23, 59)>>,
         weekdayDescriptions |->
            <<<<"s","e","g","u","n","d","a","-","f","e","i","r","a",":"," ","1","0",":","0","0"," ",ENDASH," ","2","2",":","0","0">>,
              <<"d","o","m","i","n","g","o",":"," ","F","e","c","h","a","d","o">>>>],
     businessStatus |-> "OPERATIONAL",
     editorialSummary |-> [text |-> "Bar de esquina"],
     rating |-> "4.5",
     servesVegetarianFood |-> TRUE]

\* the same place later: other hours, another primary type, fewer fields
PlaceChanged ==
    [displayName |-> [text |-> "Cantina Y"],
     formattedAddress |->
        <<"A","v","."," ","P","a","u","l","i","s","t","a",","," ","1","0","0","0",","," ","B","e","l","a"," ","V","i","s","t","a",","," ","S","ã","o"," ","P","a","u","l","o"," ","-"," ","S","P",","," ","B","r","a","s","i","l">>,
     location |-> [latitude |-> "-23.5614", longitude |-> "-46.6559"],
     googleMapsUri |-> "https://maps.google.com/?cid=2",
     types |-> <<"restaurant", "food">>,
     primaryTypeDisplayName |-> [text |-> "Restaurante"],
     regularOpeningHours |-> [periods |-> <<Period(0, 9, 5, 15, 0)>>],
     businessStatus |-> "CLOSED_TEMPORARILY"]

\* a place with an address, a location and one type, which is its primary type
PlaceBare ==
    [types |-> <<"cafe">>,
     primaryTypeDisplayName |-> [text |-> "cafe"],
     formattedAddress |->
        <<"L","a","r","g","o"," ","d","o"," ","A","r","o","u","c","h","e",","," ","3","4","6">>,
     location |-> [latitude |-> "-23.5431", longitude |-> "-46.6458"]]

\* a place the API gives no address for
PlaceNoAddress ==
    [displayName |-> [text |-> "Bar X"],
     location |-> [latitude |-> "-23.5534", longitude |-> "-46.6577"],
     types |-> <<"bar">>]

\* a place the API gives an empty address for
PlaceEmptyAddress ==
    [displayName |-> [text |-> "Bar X"],
     formattedAddress |-> <<>>,
     location |-> [latitude |-> "-23.5534", longitude |-> "-46.6577"],
     types |-> <<"bar">>]

PlaceDetails ==
    {PlaceFull, PlaceChanged, PlaceBare, PlaceNoAddress, PlaceEmptyAddress}

\* the answers of POST places:searchText
SearchResponses ==
    {[raises |-> FALSE, status_code |-> 200,
      json |-> [places |-> <<[id |-> g]>>]] : g \in GoogleIds}
    \cup {[raises |-> FALSE, status_code |-> 200, json |-> EmptyDict],
          [raises |-> FALSE, status_code |-> 429, json |-> EmptyDict],
          [raises |-> TRUE, status_code |-> 0, json |-> EmptyDict]}

\* the answers of GET places/<id>
DetailsResponses ==
    {[raises |-> FALSE, status_code |-> 200, json |-> d] : d \in PlaceDetails}
    \cup {[raises |-> FALSE, status_code |-> 404, json |-> EmptyDict]}

\* the search found no place: status 200 and no places in the body
NoMatch(response) ==
    /\ ~response.raises
    /\ response.status_code = 200
    /\ Get(response.json, "places", <<>>) = <<>>

----------------------------------------------------------------------------
\* GooglePlacesAPIClient

get_place_id(response) ==
    IF response.raises
    THEN [raised |-> TRUE, google_id |-> None]
    ELSE IF response.status_code = 200
    THEN IF "places" \notin DOMAIN response.json \/ response.json.places = <<>>
         THEN [raised |-> TRUE, google_id |-> None]
         ELSE [raised |-> FALSE,
               google_id |-> Get(response.json.places[1], "id", None)]
    ELSE [raised |-> FALSE, google_id |-> None]

get_place_details(search, details) ==
    LET found == get_place_id(search)
    IN IF found.raised
       THEN [raised |-> TRUE, google_id |-> None, data |-> EmptyDict]
       ELSE IF ~Truthy(found.google_id)
       THEN [raised |-> FALSE, google_id |-> None, data |-> EmptyDict]
       ELSE IF details.raises
       THEN [raised |-> TRUE, google_id |-> None, data |-> EmptyDict]
       ELSE IF details.status_code = 200
       THEN [raised |-> FALSE, google_id |-> found.google_id,
             data |-> details.json]
       ELSE [raised |-> FALSE, google_id |-> found.google_id,
             data |-> EmptyDict]

----------------------------------------------------------------------------
\* The psycopg2 connection: the committed rows and the rows the open
\* transaction sees.  restaurants and restaurant_types carry the unique keys
\* their ON CONFLICT clauses name and google_api_quota is only written by
\* check-then-write, so they are sets of rows; opening_hours is written by a
\* plain INSERT, so it is the sequence of the rows inserted.

EmptyTables ==
    [restaurants |-> {}, opening_hours |-> <<>>, restaurant_types |-> {},
     google_api_quota |-> {}]

Connect(committed) == [committed |-> committed, session |-> committed]

\* conn.commit()
Commit(conn) == [committed |-> conn.session, session |-> conn.session]

\* conn.rollback()
Rollback(conn) == [committed |-> conn.committed, session |-> conn.committed]

----------------------------------------------------------------------------
\* add_quota_counter

api_services == <<"pro", "essential", "enterprise">>

quota_limits_standard ==
    [essential |-> 10000, pro |-> 5000, enterprise |-> 1000]

\* datetime.now().strftime('%Y-%m-01'): the calls of a behaviour fall in one
\* calendar month
month_year == "YYYY-MM-01"

\* one turn of the loop over api_services
count_service(quota, api_service) ==
    LET result == {q \in quota : q.month_year = month_year
                                 /\ q.api_service = api_service}
    IN IF result # {}
       THEN {IF q \in result THEN [q EXCEPT !.quota_used = @ + 1] ELSE q :
                q \in quota}
       ELSE IF api_service \notin DOMAIN quota_limits_standard
       THEN quota
       ELSE quota \cup {[month_year |-> month_year,
                         api_service |-> api_service,
                         quota_limit |-> quota_limits_standard[api_service],
                         quota_used |-> 1]}

RECURSIVE count_services(_, _)
count_services(quota, services) ==
    IF services = <<>> THEN quota
    ELSE count_services(count_service(quota, services[1]), Tail(services))

\* fails: a statement of the function raises; what it leaves in the session
\* is for the caller to roll back.  Otherwise the function ends by
\* conn.commit(), which commits everything the session holds.
add_quota_counter(conn, fails) ==
    IF fails THEN [raised |-> TRUE, conn |-> conn]
    ELSE [raised |-> FALSE,
          conn |-> Commit([conn EXCEPT !.session.google_api_quota =
                              count_services(@, api_services)])]

----------------------------------------------------------------------------
\* RestaurantDataProcessor

restaurant_params(google_id, restaurant_name, google_fields_data, street_parsed) ==
    [google_id |-> google_id,
     google_name |-> restaurant_name,
     google_display_name |->
        Get(Get(google_fields_data, "displayName", EmptyDict), "text", None),
     street_type |-> street_parsed.street_type,
     street_name |-> street_parsed.street_name,
     street_number |-> street_parsed.street_number,
     street_complement |-> street_parsed.street_complement,
     street_neighborhood |-> street_parsed.street_neighborhood,
     postalcode |-> street_parsed.postalcode,
     city |-> street_parsed.city,
     state |-> street_parsed.state,
     country |-> street_parsed.country,
     business_status |-> Get(google_fields_data, "businessStatus", None),
     editorial_summary |->
        Get(Get(google_fields_data, "editorialSummary", EmptyDict), "text", None),
     google_url |-> Get(google_fields_data, "googleMapsUri", None),
     latitude |-> str(Get(google_fields_data.location, "latitude", None)),
     longitude |-> str(Get(google_fields_data.location, "longitude", None)),
     ratings |-> IF "rating" \in DOMAIN google_fields_data
                 THEN str(google_fields_data.rating) ELSE None,
     vegetarian_food |-> Get(google_fields_data, "servesVegetarianFood", FALSE),
     website |-> Get(google_fields_data, "websiteUri", None),
     opening_hours_description |->
        format_opening_hours_description(
            Get(Get(google_fields_data, "regularOpeningHours", EmptyDict),
                "weekdayDescriptions", NoneSeq))]

\* the columns of ON CONFLICT (google_id) DO UPDATE SET ... = EXCLUDED. ...
updated_columns ==
    {"google_name", "google_display_name", "street_type", "street_name",
     "street_number", "street_complement", "street_neighborhood", "postalcode",
     "city", "state", "country", "business_status", "editorial_summary",
     "google_url", "latitude", "longitude", "ratings", "vegetarian_food",
     "website", "opening_hours_description"}

\* the upsert with ON CONFLICT (google_id) DO NOTHING: a row in conflict stays
\* as it is
upsert_restaurant_do_nothing(restaurants, params, new_id, now) ==
    IF \A r \in restaurants : r.google_id # params.google_id
    THEN restaurants \cup {[id |-> new_id, updated_at |-> 0] @@ params}
    ELSE restaurants

\* INSERT INTO restaurants ... ON CONFLICT (google_id) DO UPDATE ...: the
\* table afterwards.  A new row takes new_id and the default of updated_at
\* (written 0); a row in conflict keeps its id.
upsert_restaurant(restaurants, params, new_id, now) ==
    LET conflict == {r \in restaurants : r.google_id = params.google_id}
    IN IF conflict = {}
       THEN restaurants \cup {[id |-> new_id, updated_at |-> 0] @@ params}
       ELSE {IF r \in conflict
             THEN [c \in DOMAIN r |->
                      IF c \in updated_columns THEN params[c]
                      ELSE IF c = "updated_at" THEN now
                      ELSE r[c]]
             ELSE r : r \in restaurants}

\* RETURNING id
returned_id(restaurants, google_id) ==
    (CHOOSE r \in restaurants : r.google_id = google_id).id

\* fails: cursor.execute raises
_insert_restaurant(conn, seq, now, google_id, restaurant_name, google_fields_data, street_parsed, fails) ==
    LET params == restaurant_params(google_id, restaurant_name,
                                    google_fields_data, street_parsed)
        inserts == \A r \in conn.session.restaurants : r.google_id # google_id
        restaurants == upsert_restaurant(conn.session.restaurants, params,
                                         seq + 1, now)
    IN IF "location" \notin DOMAIN google_fields_data \/ fails
       THEN [raised |-> TRUE, conn |-> conn, id_seq |-> seq, restaurant_id |-> 0]
       ELSE [raised |-> FALSE,
             conn |-> [conn EXCEPT !.session.restaurants = restaurants],
             id_seq |-> IF inserts THEN seq + 1 ELSE seq,
             restaurant_id |-> returned_id(restaurants, google_id)]

\* the rows _insert_opening_hours inserts
opening_hours_rows(google_fields_data, restaurant_id) ==
    LET opening_hours_periods ==
            Get(Get(google_fields_data, "regularOpeningHours", EmptyDict),
                "periods", NoneSeq)
        formatted_periods ==
            format_opening_hours_periods(opening_hours_periods, restaurant_id)
    IN IF opening_hours_periods = NoneSeq THEN <<>>
       ELSE [i \in DOMAIN formatted_periods |->
                [restaurant_id |-> formatted_periods[i].restaurant_id,
                 day_of_week |-> formatted_periods[i].day_of_the_week,
                 opens_at |-> formatted_periods[i].opens_at,
                 closes_at |-> formatted_periods[i].closes_at,
                 is_opened |-> formatted_periods[i].is_opened]]

\* fails: a cursor.execute raises, which takes a row to insert
_insert_opening_hours(conn, google_fields_data, restaurant_id, fails) ==
    LET rows == opening_hours_rows(google_fields_data, restaurant_id)
    IN IF fails /\ rows # <<>>
       THEN [raised |-> TRUE, conn |-> conn]
       ELSE [raised |-> FALSE,
             conn |-> [conn EXCEPT !.session.opening_hours = @ \o rows]]

\* the insert of a tag without ON CONFLICT, on a table without the unique
\* key: a row is added whatever is stored
insert_type_no_conflict(restaurant_types, row) ==
    restaurant_types \cup {row}

\* INSERT INTO restaurant_types ...
\* ON CONFLICT (restaurant_id, restaurant_type) DO NOTHING
insert_type(restaurant_types, row) ==
    IF \E r \in restaurant_types :
          /\ r.restaurant_id = row.restaurant_id
          /\ r.restaurant_type = row.restaurant_type
    THEN restaurant_types
    ELSE restaurant_types \cup {row}

\* the rows _insert_restaurant_types executes an insert for, in order
restaurant_types_rows(google_fields_data, restaurant_id) ==
    LET restaurant_types_list == Get(google_fields_data, "types", <<>>)
        primary_type ==
            Get(Get(google_fields_data, "primaryTypeDisplayName", EmptyDict),
                "text", None)
    IN SelectSeq([i \in DOMAIN restaurant_types_list |->
                     [restaurant_id |-> restaurant_id,
                      restaurant_type |-> restaurant_types_list[i],
                      is_primary_type |-> FALSE]],
                 LAMBDA row : Truthy(row.restaurant_type))
       \o (IF Truthy(primary_type)
           THEN <<[restaurant_id |-> restaurant_id,
                   restaurant_type |-> primary_type,
                   is_primary_type |-> TRUE]>>
           ELSE <<>>)

RECURSIVE insert_types(_, _)
insert_types(restaurant_types, rows) ==
    IF rows = <<>> THEN restaurant_types
    ELSE insert_types(insert_type(restaurant_types, rows[1]), Tail(rows))

\* fails: a cursor.execute raises, which takes a row to insert
_insert_restaurant_types(conn, google_fields_data, restaurant_id, fails) ==
    LET rows == restaurant_types_rows(google_fields_data, restaurant_id)
    IN IF fails /\ rows # <<>>
       THEN [raised |-> TRUE, conn |-> conn]
       ELSE [raised |-> FALSE,
             conn |-> [conn EXCEPT !.session.restaurant_types =
                          insert_types(@, rows)]]

\* the validation that passes every address, missing ones included
address_never_missing(address) == FALSE

\* if not address: raise Exception("Missing address data")
address_missing(address) == address = NoneSeq

\* parse_street_name(address) for the addresses of PlaceDetails, worked out once
street_parsed_of ==
    [address \in {Get(d, "formattedAddress", NoneSeq) : d \in PlaceDetails} |->
        parse_street_name(address)]

\* where a statement of the database may fail in a call
FailPoints == {"none", "upsert", "quota", "hours", "types", "commit"}

\* One call of process_and_store on a connection whose committed rows are
\* committed: the rows committed when it returns or raises, and how it ended.
process_and_store(committed, seq, now, restaurant_name, search, details, fail) ==
    LET End(outcome, failed_at, conn, s, google_id, rid) ==
            [outcome |-> outcome, failed_at |-> failed_at,
             db |-> conn.committed, id_seq |-> s,
             google_id |-> google_id, restaurant_id |-> rid]
        \* self.conn.commit(), or except: self.conn.rollback(); raise
        after_types(google_id, restaurant, types) ==
            IF types.raised
            THEN End("raised", "types", Rollback(types.conn),
                     restaurant.id_seq, google_id, restaurant.restaurant_id)
            ELSE IF fail = "commit"
            THEN End("raised", "commit", Rollback(types.conn),
                     restaurant.id_seq, google_id, restaurant.restaurant_id)
            ELSE End("ok", "none", Commit(types.conn),
                     restaurant.id_seq, google_id, restaurant.restaurant_id)
        \* 3. INSERT RESTAURANT TYPES
        after_hours(google_id, google_fields_data, restaurant, hours) ==
            IF hours.raised
            THEN End("raised", "hours", Rollback(hours.conn),
                     restaurant.id_seq, google_id, restaurant.restaurant_id)
            ELSE after_types(google_id, restaurant,
                     _insert_restaurant_types(hours.conn, google_fields_data,
                         restaurant.restaurant_id, fail = "types"))
        \* 2. INSERT OPENING HOURS
        after_quota(google_id, google_fields_data, restaurant, quota) ==
            IF quota.raised
            THEN End("raised", "quota", Rollback(quota.conn),
                     restaurant.id_seq, google_id, 0)
            ELSE after_hours(google_id, google_fields_data, restaurant,
                     _insert_opening_hours(quota.conn, google_fields_data,
                         restaurant.restaurant_id, fail = "hours"))
        \* Update API quota counter
        after_restaurant(google_id, google_fields_data, restaurant) ==
            IF restaurant.raised
            THEN End("raised", "upsert", Rollback(restaurant.conn), seq,
                     google_id, 0)
            ELSE after_quota(google_id, google_fields_data, restaurant,
                     add_quota_counter(restaurant.conn, fail = "quota"))
        \* the address is validated and parsed; 1. INSERT/UPDATE RESTAURANT DATA
        after_fetch(google_id, google_fields_data, conn, address) ==
            IF address_missing(address)
            THEN End("raised", "address", Rollback(conn), seq, google_id, 0)
            ELSE after_restaurant(google_id, google_fields_data,
                     _insert_restaurant(conn, seq, now, google_id,
                         restaurant_name, google_fields_data,
                         street_parsed_of[address], fail = "upsert"))
        \* Fetch data from Google Places API
        fetch(fetched, conn) ==
            IF fetched.raised
            THEN End("raised", "fetch", conn, seq, fetched.google_id, 0)
            ELSE IF ~Truthy(fetched.google_id) \/ DOMAIN fetched.data = {}
            THEN End("skipped", "none", conn, seq, fetched.google_id, 0)
            ELSE after_fetch(fetched.google_id, fetched.data, conn,
                     Get(fetched.data, "formattedAddress", NoneSeq))
    IN fetch(get_place_details(search, details), Connect(committed))

\* SELECT nome FROM (VALUES ...) AS lista(nome) WHERE NOT EXISTS (SELECT 1
\* FROM restaurants r WHERE r.google_name = lista.nome): with no name the
\* VALUES list is empty, which is a syntax error
get_restaurants_to_insert(restaurants, restaurants_names_list) ==
    IF restaurants_names_list = <<>>
    THEN [raised |-> TRUE, names |-> <<>>]
    ELSE [raised |-> FALSE,
          names |-> SelectSeq(restaurants_names_list,
                       LAMBDA nome : \A r \in restaurants : r.google_name # nome)]

----------------------------------------------------------------------------
\* The state machine

\* the lists extract_google_maps_names may return
NameLists == UNION {[1..n -> Names] : n \in 0..MaxNames}

NoCall ==
    [name |-> None, search |-> [raises |-> FALSE, status_code |-> 0,
                                json |-> EmptyDict],
     data |-> EmptyDict, outcome |-> "none", failed_at |-> "none",
     google_id |-> None, restaurant_id |-> 0, existed |-> FALSE,
     repeated |-> FALSE]

\* main() has not run and the tables are empty
PipelineIdle ==
    /\ db = EmptyTables
    /\ id_seq = 0
    /\ clock = 0
    /\ pc = "idle"
    /\ reconciled = <<>>
    /\ restaurants_to_insert = <<>>
    /\ attempted = {}
    /\ last = NoCall

Init ==
    /\ PipelineIdle
    /\ arguments = <<>>
    /\ returned = <<>>

\* processor.process_and_store(restaurant_name), with what the API answers
\* and where the database fails chosen freely
Call(restaurant_name) ==
    /\ clock < MaxCalls
    /\ \E search \in SearchResponses, details \in DetailsResponses,
          fail \in FailPoints :
        \E r \in {process_and_store(db, id_seq, clock + 1, restaurant_name,
                                    search, details, fail)} :
           /\ fail # "none" => r.failed_at = fail
           /\ db' = r.db
           /\ id_seq' = r.id_seq
           /\ clock' = clock + 1
           /\ last' = [name |-> restaurant_name,
                       search |-> search,
                       data |-> get_place_details(search, details).data,
                       outcome |-> r.outcome,
                       failed_at |-> r.failed_at,
                       google_id |-> r.google_id,
                       restaurant_id |-> r.restaurant_id,
                       existed |-> \E row \in db.restaurants :
                                      row.google_id = r.google_id,
                       repeated |-> /\ last.outcome = "ok"
                                    /\ r.outcome = "ok"
                                    /\ last.name = restaurant_name
                                    /\ last.google_id = r.google_id
                                    /\ last.data = details.json]

\* a caller other than main() uses the processor
ProcessAndStore ==
    /\ pc = "idle"
    /\ \E restaurant_name \in Names : Call(restaurant_name)
    /\ UNCHANGED <<pc, reconciled, restaurants_to_insert, attempted>>
    /\ UNCHANGED function_vars

\* main() up to its loop: the names are extracted, get_restaurants_to_insert
\* filters them and the list is cut to its first name
MainStart ==
    /\ pc = "idle"
    /\ clock < MaxCalls
    /\ \E restaurants_names_list \in NameLists :
        LET r == get_restaurants_to_insert(db.restaurants, restaurants_names_list)
        IN /\ pc' = IF r.raised THEN "aborted" ELSE "loop"
           /\ reconciled' = r.names
           /\ restaurants_to_insert' =
                  SubSeq(r.names, 1, IF Len(r.names) < 1 THEN Len(r.names) ELSE 1)
    /\ attempted' = {}
    /\ UNCHANGED <<db, id_seq, clock, last>>
    /\ UNCHANGED function_vars

\* one turn of the loop of main(): an exception of process_and_store leaves
\* the loop and main() through finally: conn.close()
MainLoop ==
    /\ pc = "loop"
    /\ restaurants_to_insert # <<>>
    /\ Call(Head(restaurants_to_insert))
    /\ attempted' = attempted \cup {Head(restaurants_to_insert)}
    /\ pc' = IF last'.outcome = "raised" THEN "aborted" ELSE "loop"
    /\ restaurants_to_insert' = Tail(restaurants_to_insert)
    /\ UNCHANGED reconciled
    /\ UNCHANGED function_vars

\* the loop of main() has no name left
MainEnd ==
    /\ pc = "loop"
    /\ restaurants_to_insert = <<>>
    /\ pc' = "done"
    /\ UNCHANGED <<db, id_seq, clock, reconciled, restaurants_to_insert,
                   attempted, last>>
    /\ UNCHANGED function_vars

\* the run is over; the schedule starts the next one later
NextRun ==
    /\ pc \in {"done", "aborted"}
    /\ pc' = "idle"
    /\ reconciled' = <<>>
    /\ restaurants_to_insert' = <<>>
    /\ attempted' = {}
    /\ UNCHANGED <<db, id_seq, clock, last>>
    /\ UNCHANGED function_vars

Next == ProcessAndStore \/ MainStart \/ MainLoop \/ MainEnd \/ NextRun

Spec == Init /\ [][Next]_vars

----------------------------------------------------------------------------
\* _insert_restaurant on its own: the record built from the details of a place,
\* whatever fields of the field mask the API leaves out

\* the fields the API may leave out, as paths into the details
OptionalFields ==
    {<<"displayName">>, <<"displayName", "text">>, <<"businessStatus">>,
     <<"editorialSummary">>, <<"editorialSummary", "text">>,
     <<"googleMapsUri">>, <<"location">>, <<"location", "latitude">>,
     <<"location", "longitude">>, <<"rating">>, <<"websiteUri">>,
     <<"regularOpeningHours">>, <<"regularOpeningHours", "weekdayDescriptions">>,
     <<"servesVegetarianFood">>}

\* the dict d has something at the path
Has(d, path) ==
    /\ path[1] \in DOMAIN d
    /\ Len(path) = 2 => path[2] \in DOMAIN d[path[1]]

\* the dict d without what it has at the path
Without(d, path) ==
    IF Len(path) = 1
    THEN [k \in DOMAIN d \ {path[1]} |-> d[k]]
    ELSE [d EXCEPT ![path[1]] = [k \in DOMAIN @ \ {path[2]} |-> @[k]]]

\* cursor.execute(restaurant_insert, restaurant_params) on empty tables
InsertRecord(google_fields_data) ==
    _insert_restaurant(Connect(EmptyTables), 0, 1, "ChIJ-1", "Bar X",
        google_fields_data,
        parse_street_name(google_fields_data.formattedAddress), FALSE)

RecordInit ==
    /\ PipelineIdle
    /\ arguments = PlaceFull
    /\ returned = InsertRecord(PlaceFull)

\* the API leaves out one more field
DropField ==
    /\ \E path \in OptionalFields :
          /\ Has(arguments, path)
          /\ arguments' = Without(arguments, path)
          /\ returned' = InsertRecord(arguments')
    /\ UNCHANGED pipeline_vars

SpecRecord == RecordInit /\ [][DropField]_vars

----------------------------------------------------------------------------
\* format_opening_hours_periods on its own: the periods of regularOpeningHours
\* come one by one, in the order of the API

\* Longest list of periods given to format_opening_hours_periods.
MaxPeriods == 2

\* opening and closing times of a period: hour, minute, hour, minute
TimeSlots == {<<9, 5, 18, 0>>, <<18, 30, 23, 59>>}

\* the periods the API may give: of a day 0..6, or with no day in open
RawPeriods ==
    {Period(day, t[1], t[2], t[3], t[4]) : day \in 0..6, t \in TimeSlots}
    \cup {[open |-> [hour |-> t[1], minute |-> t[2]],
           close |-> [hour |-> t[3], minute |-> t[4]]] : t \in TimeSlots}

NormalizerInit ==
    /\ PipelineIdle
    /\ arguments = <<>>
    /\ returned = format_opening_hours_periods(<<>>, 1)

\* the list has one more period
AddPeriod ==
    /\ Len(arguments) < MaxPeriods
    /\ \E period \in RawPeriods :
          /\ arguments' = Append(arguments, period)
          /\ returned' = format_opening_hours_periods(arguments', 1)
    /\ UNCHANGED pipeline_vars

SpecNormalizer == NormalizerInit /\ [][AddPeriod]_vars

----------------------------------------------------------------------------
\* parse_street_name on its own: formattedAddress is free text, here put
\* together from pieces of addresses in any order

\* Most pieces an address is put together from.
MaxPieces == 4

\* pieces of addresses: 'Rua A', '12', ',', ',b,c', ' - ', 'SP', '01305-000',
\* a space
Pieces ==
    {<<"R","u","a"," ","A">>, <<"1","2">>, <<",">>, <<",","b",",","c">>,
     <<" ","-"," ">>, <<"S","P">>, <<"0","1","3","0","5","-","0","0","0">>,
     <<" ">>}

\* the address the pieces make
AddressOf(pieces) == Join(pieces, <<>>)

ParserInit ==
    /\ PipelineIdle
    /\ arguments = <<>>
    /\ returned = parse_street_name(AddressOf(<<>>))

\* the address has one more piece
AddPiece ==
    /\ Len(arguments) < MaxPieces
    /\ \E piece \in Pieces :
          /\ arguments' = Append(arguments, piece)
          /\ returned' = parse_street_name(AddressOf(arguments'))
    /\ UNCHANGED pipeline_vars

SpecParser == ParserInit /\ [][AddPiece]_vars

----------------------------------------------------------------------------
\* parse_street_name on the addresses Google formats in full:
\* '<type> <name>, <number> - <neighborhood>, <city> - <UF>, <postal code>,
\* <country>'

\* names of streets: 'Augusta', '7 de Abril', 'Dr. Arnaldo'
StreetNames ==
    {<<"A","u","g","u","s","t","a">>,
     <<"7"," ","d","e"," ","A","b","r","i","l">>,
     <<"D","r","."," ","A","r","n","a","l","d","o">>}

\* numbers: '123', '45A'
StreetNumbers == {<<"1","2","3">>, <<"4","5","A">>}

\* neighborhoods: 'Consolação', 'Vila Madalena'
Neighborhoods ==
    {<<"C","o","n","s","o","l","a","ç","ã","o">>,
     <<"V","i","l","a"," ","M","a","d","a","l","e","n","a">>}

\* cities: 'São Paulo', 'Niterói'
Cities == {<<"S","ã","o"," ","P","a","u","l","o">>,
           <<"N","i","t","e","r","ó","i">>}

States == {<<"S","P">>, <<"R","J">>}

\* postal codes: '01305-000', '01305000'
PostalCodes == {<<"0","1","3","0","5","-","0","0","0">>,
                <<"0","1","3","0","5","0","0","0">>}

Countries == {<<"B","r","a","s","i","l">>, <<"B","r","a","z","i","l">>}

\* what each component of an address may be
ComponentValues ==
    [street_type |-> {street_types[i] : i \in DOMAIN street_types},
     street_name |-> StreetNames, street_number |-> StreetNumbers,
     street_neighborhood |-> Neighborhoods, city |-> Cities,
     state |-> States, postalcode |-> PostalCodes, country |-> Countries]

\* the address in full of the components c
WellFormedAddress(c) ==
    c.street_type \o <<" ">> \o c.street_name \o <<",", " ">>
       \o c.street_number \o <<" ", "-", " ">> \o c.street_neighborhood
       \o <<",", " ">> \o c.city \o <<" ", "-", " ">> \o c.state
       \o <<",", " ">> \o c.postalcode \o <<",", " ">> \o c.country

\* 'Rua Augusta, 123 - Consolação, São Paulo - SP, 01305-000, Brasil'
RuaAugusta ==
    [street_type |-> <<"R","u","a">>,
     street_name |-> <<"A","u","g","u","s","t","a">>,
     street_number |-> <<"1","2","3">>,
     street_neighborhood |-> <<"C","o","n","s","o","l","a","ç","ã","o">>,
     city |-> <<"S","ã","o"," ","P","a","u","l","o">>,
     state |-> <<"S","P">>,
     postalcode |-> <<"0","1","3","0","5","-","0","0","0">>,
     country |-> <<"B","r","a","s","i","l">>]

WellFormedInit ==
    /\ PipelineIdle
    /\ arguments = RuaAugusta
    /\ returned = parse_street_name(WellFormedAddress(RuaAugusta))

\* the address in full with another value of one component is parsed
ChangeComponent ==
    /\ \E field \in DOMAIN ComponentValues :
          \E value \in ComponentValues[field] :
             /\ arguments' = [arguments EXCEPT ![field] = value]
             /\ returned' = parse_street_name(WellFormedAddress(arguments'))
    /\ UNCHANGED pipeline_vars

SpecWellFormed == WellFormedInit /\ [][ChangeComponent]_vars

----------------------------------------------------------------------------
\* The left part of parse_street_name on its own: the segments between
\* commas that are left when country, postal code, state and city are taken,
\* each stripped and not empty

\* Most segments of the left part.
MaxSegments == 3

\* 'Rua A', 'Av. B', 'Avenida', 'Ruald', '12', '12a', '- 12', '12 - Centro',
\* '12 loja 2', '12ab', '12 -', 'loja 2', '- Centro', 'loja 14 - Centro',
\* 'a - b - c', '-', '- x -'
Segments ==
    {<<"R","u","a"," ","A">>,
     <<"A","v","."," ","B">>,
     <<"A","v","e","n","i","d","a">>,
     <<"R","u","a","l","d">>,
     <<"1","2">>,
     <<"1","2","a">>,
     <<"-"," ","1","2">>,
     <<"1","2"," ","-"," ","C","e","n","t","r","o">>,
     <<"1","2"," ","l","o","j","a"," ","2">>,
     <<"1","2","a","b">>,
     <<"1","2"," ","-">>,
     <<"l","o","j","a"," ","2">>,
     <<"-"," ","C","e","n","t","r","o">>,
     <<"l","o","j","a"," ","1","4"," ","-"," ","C","e","n","t","r","o">>,
     <<"a"," ","-"," ","b"," ","-"," ","c">>,
     <<"-">>,
     <<"-"," ","x"," ","-">>}

\* what the three steps of the left part give for the segments parts:
\* the result after the street, parts and result after the number, and the
\* result in the end
decompose(parts) ==
    LET of_street(street) ==
            LET of_number(numbered) ==
                    [street |-> street, numbered |-> numbered,
                     result |-> extract_neighborhood(numbered.parts,
                                                     numbered.result)]
            IN of_number(extract_number(Tail(parts), street))
    IN IF parts = <<>>
       THEN [street |-> EmptyAddress,
             numbered |-> [parts |-> <<>>, result |-> EmptyAddress],
             result |-> EmptyAddress]
       ELSE of_street(extract_street(parts[1], EmptyAddress))

SegmentsInit ==
    /\ PipelineIdle
    /\ arguments = <<>>
    /\ returned = decompose(<<>>)

\* the left part has one more segment
AddSegment ==
    /\ Len(arguments) < MaxSegments
    /\ \E segment \in Segments :
          /\ arguments' = Append(arguments, segment)
          /\ returned' = decompose(arguments')
    /\ UNCHANGED pipeline_vars

SpecSegments == SegmentsInit /\ [][AddSegment]_vars

----------------------------------------------------------------------------
\* get_restaurants_to_insert on its own: the names of the list against the
\* rows of restaurants

\* the names a list or a row may hold: a name may come with a space after it
ReconcileNames == Names \cup {"Bar X "}

ReconcileInit ==
    /\ PipelineIdle
    /\ arguments = [restaurants |-> {}, restaurants_names_list |-> <<>>]
    /\ returned = get_restaurants_to_insert({}, <<>>)

\* restaurants has one more row
StoreRestaurant ==
    /\ \E nome \in ReconcileNames :
          /\ \A r \in arguments.restaurants : r.google_name # nome
          /\ arguments' = [arguments EXCEPT
                              !.restaurants = @ \cup {[google_name |-> nome]}]
    /\ returned' = get_restaurants_to_insert(arguments'.restaurants,
                                             arguments'.restaurants_names_list)
    /\ UNCHANGED pipeline_vars

\* the list has one more name
ListRestaurant ==
    /\ Len(arguments.restaurants_names_list) < MaxNames
    /\ \E nome \in ReconcileNames :
          arguments' = [arguments EXCEPT
                           !.restaurants_names_list = Append(@, nome)]
    /\ returned' = get_restaurants_to_insert(arguments'.restaurants,
                                             arguments'.restaurants_names_list)
    /\ UNCHANGED pipeline_vars

SpecReconcile == ReconcileInit /\ [][StoreRestaurant \/ ListRestaurant]_vars

----------------------------------------------------------------------------
\* The create/delete handler of the DynamoDB version: arguments is what the
\* handler reads (the table map_data and the list of Google Maps), returned is
\* where the handler stands

\* existing_names = [item.get('google_name', '') for item in dynamodb_list]
existing_names(dynamodb_list) == {item.google_name : item \in dynamodb_list}

\* [name for name in restaurants_names_list if name not in existing_names]
restaurants_to_put(restaurants_names_list, names) ==
    SelectSeq(restaurants_names_list, LAMBDA name : name \notin names)

\* DynamoClient.delete_from_dynamo: update_item with the key and a condition
\* and nothing to update; the table is as it was
delete_from_dynamo(table, item) == table

\* the handler has not been called
HandlerIdle ==
    [pc |-> "idle", table |-> {}, restaurants_to_put |-> <<>>,
     to_put |-> <<>>, google_name |-> None, new_dynamodb_list |-> {},
     to_delete |-> {}]

HandlerInit ==
    /\ PipelineIdle
    /\ arguments = [dynamodb_list |-> {}, restaurants_names_list |-> <<>>]
    /\ returned = HandlerIdle

\* before the handler is called: map_data has one more item
StoreItem ==
    /\ returned.pc = "idle"
    /\ \E name \in Names, google_id \in GoogleIds :
          /\ [google_id |-> google_id, google_name |-> name]
                \notin arguments.dynamodb_list
          /\ arguments' = [arguments EXCEPT !.dynamodb_list = @ \cup
                              {[google_id |-> google_id, google_name |-> name]}]
    /\ UNCHANGED returned
    /\ UNCHANGED pipeline_vars

\* before the handler is called: the list of Google Maps has one more name
ListName ==
    /\ returned.pc = "idle"
    /\ Len(arguments.restaurants_names_list) < MaxNames
    /\ \E name \in Names :
          arguments' = [arguments EXCEPT
                           !.restaurants_names_list = Append(@, name)]
    /\ UNCHANGED returned
    /\ UNCHANGED pipeline_vars

\* handler(event) up to its first loop
HandlerStart ==
    /\ returned.pc = "idle"
    /\ \E names \in {restaurants_to_put(arguments.restaurants_names_list,
                         existing_names(arguments.dynamodb_list))} :
          returned' = [returned EXCEPT !.pc = "put",
                                       !.table = arguments.dynamodb_list,
                                       !.restaurants_to_put = names,
                                       !.to_put = names]
    /\ UNCHANGED arguments
    /\ UNCHANGED pipeline_vars

\* one turn of the loop `for google_name in restaurants_to_put`:
\* save_to_dynamo puts the item, or a request of its fails and the handler
\* ends there
HandlerPut ==
    /\ returned.pc = "put"
    /\ returned.to_put # <<>>
    /\ \/ \E google_id \in GoogleIds :
             returned' = [returned EXCEPT
                 !.google_name = Head(returned.to_put),
                 !.to_put = Tail(returned.to_put),
                 !.table = @ \cup {[google_id |-> google_id,
                                    google_name |-> Head(returned.to_put)]}]
       \/ returned' = [returned EXCEPT
                 !.google_name = Head(returned.to_put),
                 !.pc = "failed"]
    /\ UNCHANGED arguments
    /\ UNCHANGED pipeline_vars

\* new_dynamodb_list = extract_dynamodb_list()
HandlerScan ==
    /\ returned.pc = "put"
    /\ returned.to_put = <<>>
    /\ returned' = [returned EXCEPT !.pc = "delete",
                                    !.new_dynamodb_list = returned.table]
    /\ UNCHANGED arguments
    /\ UNCHANGED pipeline_vars

\* one turn of the loop `for restaurant_dynamo in new_dynamodb_list`: for an
\* item to delete, the print reads google_name, which is bound only when the
\* first loop had a turn
HandlerDelete ==
    /\ returned.pc = "delete"
    /\ \E restaurant_dynamo \in returned.new_dynamodb_list :
          returned' =
             IF \E i \in DOMAIN arguments.restaurants_names_list :
                   arguments.restaurants_names_list[i]
                      = restaurant_dynamo.google_name
             THEN [returned EXCEPT
                      !.new_dynamodb_list = @ \ {restaurant_dynamo}]
             ELSE IF returned.google_name = None
             THEN [returned EXCEPT !.pc = "raised"]
             ELSE [returned EXCEPT
                      !.new_dynamodb_list = @ \ {restaurant_dynamo},
                      !.to_delete = @ \cup {restaurant_dynamo.google_name},
                      !.table = delete_from_dynamo(@, restaurant_dynamo)]
    /\ UNCHANGED arguments
    /\ UNCHANGED pipeline_vars

\* the second loop has no item left
HandlerEnd ==
    /\ returned.pc = "delete"
    /\ returned.new_dynamodb_list = {}
    /\ returned' = [returned EXCEPT !.pc = "done"]
    /\ UNCHANGED arguments
    /\ UNCHANGED pipeline_vars

HandlerNext ==
    \/ StoreItem
    \/ ListName
    \/ HandlerStart
    \/ HandlerPut
    \/ HandlerScan
    \/ HandlerDelete
    \/ HandlerEnd

SpecHandler == HandlerInit /\ [][HandlerNext]_vars

----------------------------------------------------------------------------
\* The two parsers on one address: arguments is the pieces of the address,
\* returned is what each parser returns

\* 'Pç.', 'Rua', 'Tv. B', ' A', ',', '12', ' - SP'
ParserPieces ==
    {<<"P","ç",".">>, <<"R","u","a">>, <<"T","v","."," ","B">>,
     <<" ","A">>, <<",">>, <<"1","2">>, <<" ","-"," ","S","P">>}

\* what the two parsers return for an address
both_parsers(address) ==
    [dag |-> parse_street_name(address),
     migration |-> migration_parse_street_name(address)]

TwoParsersInit ==
    /\ PipelineIdle
    /\ arguments = <<>>
    /\ returned = both_parsers(NoneSeq)

\* the address has one more piece and is parsed by both
AddParserPiece ==
    /\ Len(arguments) < MaxPieces
    /\ \E piece \in ParserPieces :
          /\ arguments' = Append(arguments, piece)
          /\ returned' = both_parsers(AddressOf(arguments'))
    /\ UNCHANGED pipeline_vars

SpecTwoParsers == TwoParsersInit /\ [][AddParserPiece]_vars

----------------------------------------------------------------------------
\* The monthly update handler of the DynamoDB version: arguments is what the
\* handler reads, returned is where the handler stands

\* names of restaurants, one inside another: 'Bar', 'Bar X', 'Cantina'
UpdateNames ==
    {<<"B","a","r">>, <<"B","a","r"," ","X">>,
     <<"C","a","n","t","i","n","a">>}

\* [name for name in restaurants_names_list
\*  if any(name in existing_name for existing_name in existing_names)]
restaurants_to_update(restaurants_names_list, names) ==
    SelectSeq(restaurants_names_list,
              LAMBDA name : \E existing_name \in names :
                               Occurrences(existing_name, name) # {})

\* the test on the name of an item that is also part of a desired name
name_contained(restaurant, google_name) ==
    Occurrences(google_name, restaurant.google_name) # {}

\* if restaurant.get('google_name') == google_name
name_matches(restaurant, google_name) ==
    restaurant.google_name = google_name

\* the handler has not been called
UpdateIdle == [pc |-> "idle", to_update |-> <<>>, updated |-> {}]

UpdateInit ==
    /\ PipelineIdle
    /\ arguments = [dynamodb_list |-> {}, restaurants_names_list |-> <<>>]
    /\ returned = UpdateIdle

\* before the handler is called: map_data has one more item
StoreNamedItem ==
    /\ returned.pc = "idle"
    /\ \E name \in UpdateNames, google_id \in GoogleIds :
          /\ [google_id |-> google_id, google_name |-> name]
                \notin arguments.dynamodb_list
          /\ arguments' = [arguments EXCEPT !.dynamodb_list = @ \cup
                              {[google_id |-> google_id, google_name |-> name]}]
    /\ UNCHANGED returned
    /\ UNCHANGED pipeline_vars

\* before the handler is called: the list of Google Maps has one more name
ListUpdateName ==
    /\ returned.pc = "idle"
    /\ Len(arguments.restaurants_names_list) < MaxNames
    /\ \E name \in UpdateNames :
          arguments' = [arguments EXCEPT
                           !.restaurants_names_list = Append(@, name)]
    /\ UNCHANGED returned
    /\ UNCHANGED pipeline_vars

\* handler(event) up to its loop
UpdateStart ==
    /\ returned.pc = "idle"
    /\ returned' = [returned EXCEPT
          !.pc = "update",
          !.to_update =
              restaurants_to_update(arguments.restaurants_names_list,
                  existing_names(arguments.dynamodb_list))]
    /\ UNCHANGED arguments
    /\ UNCHANGED pipeline_vars

\* one turn of the loop `for google_name in restaurants_to_update`: every
\* item of the name is saved, or save_to_dynamo raises at one of them and
\* the handler ends there
UpdateTurn ==
    /\ returned.pc = "update"
    /\ returned.to_update # <<>>
    /\ \E saved \in SUBSET {restaurant \in arguments.dynamodb_list :
                              name_matches(restaurant,
                                           Head(returned.to_update))} :
          returned' =
             IF \A restaurant \in arguments.dynamodb_list :
                   name_matches(restaurant, Head(returned.to_update))
                   => restaurant \in saved
             THEN [returned EXCEPT !.to_update = Tail(@),
                                   !.updated = @ \cup saved]
             ELSE [returned EXCEPT !.pc = "failed",
                                   !.updated = @ \cup saved]
    /\ UNCHANGED arguments
    /\ UNCHANGED pipeline_vars

\* the loop has no name left
UpdateEnd ==
    /\ returned.pc = "update"
    /\ returned.to_update = <<>>
    /\ returned' = [returned EXCEPT !.pc = "done"]
    /\ UNCHANGED arguments
    /\ UNCHANGED pipeline_vars

UpdateNext ==
    \/ StoreNamedItem
    \/ ListUpdateName
    \/ UpdateStart
    \/ UpdateTurn
    \/ UpdateEnd

SpecUpdate == UpdateInit /\ [][UpdateNext]_vars

----------------------------------------------------------------------------
\* Properties

\* the rows of restaurants for a google_id
RowsOf(tables, google_id) ==
    {r \in tables.restaurants : r.google_id = google_id}

\* the rows of opening_hours of a restaurant, in the order of insertion
HoursOf(tables, restaurant_id) ==
    SelectSeq(tables.opening_hours,
              LAMBDA h : h.restaurant_id = restaurant_id)

\* the rows of restaurant_types of a restaurant
TypesOf(tables, restaurant_id) ==
    {t \in tables.restaurant_types : t.restaurant_id = restaurant_id}

\* this step is a call of process_and_store
Called == clock' = clock + 1

\* C1: when process_and_store fails during the insertion of the schedule or
\* of the type tags, for a google_id that had no stored row, no restaurant
\* row, schedule row or tag row of that google_id is stored afterwards.
C1_FailedNewRecordLeavesNothing ==
    (/\ last.outcome = "raised"
     /\ last.failed_at \in {"hours", "types"}
     /\ ~last.existed)
    => /\ RowsOf(db, last.google_id) = {}
       /\ HoursOf(db, last.restaurant_id) = <<>>
       /\ TypesOf(db, last.restaurant_id) = {}

\* C2: when process_and_store fails for a google_id that has a stored row,
\* that row, its schedule rows and its tag rows are what they were before
\* the call.
C2_FailedCallLeavesStoredRecord ==
    [][(Called /\ last'.outcome = "raised" /\ last'.existed)
       => \A r \in RowsOf(db, last'.google_id) :
             /\ RowsOf(db', last'.google_id) = {r}
             /\ HoursOf(db', r.id) = HoursOf(db, r.id)
             /\ TypesOf(db', r.id) = TypesOf(db, r.id)]_vars

\* C3: after a successful commit the restaurant committed has exactly 7
\* schedule rows.
C3_SevenScheduleRows ==
    last.outcome = "ok" => Len(HoursOf(db, last.restaurant_id)) = 7

\* C4: committing the same record twice in a row gives the same id, and the
\* restaurant rows (updated_at aside), the schedule rows and the tag rows
\* after the second commit are those after the first.
C4_CommitIdempotent ==
    [][(/\ Called
        /\ last.outcome = "ok"
        /\ last'.outcome = "ok"
        /\ last'.name = last.name
        /\ last'.google_id = last.google_id
        /\ last'.data = last.data)
       => /\ last'.restaurant_id = last.restaurant_id
          /\ {[r EXCEPT !.updated_at = 0] : r \in db'.restaurants}
                = {[r EXCEPT !.updated_at = 0] : r \in db.restaurants}
          /\ db'.opening_hours = db.opening_hours
          /\ db'.restaurant_types = db.restaurant_types]_vars

\* C5: a turn of the loop of main() whose item fails (it is skipped or
\* process_and_store raises) does not end the run: the loop goes on.
C5_ItemFailureKeepsLoop ==
    [][(pc = "loop" /\ Called /\ last'.outcome # "ok") => pc' = "loop"]_vars

\* C6: when the run ends, process_and_store has been called for every name
\* get_restaurants_to_insert returned.
C6_EveryNameAttempted ==
    pc = "done" => \A i \in DOMAIN reconciled : reconciled[i] \in attempted

\* C7: no restaurant has two tags flagged primary.
C7_OnePrimaryType ==
    \A t1, t2 \in db.restaurant_types :
        (/\ t1.restaurant_id = t2.restaurant_id
         /\ t1.is_primary_type
         /\ t2.is_primary_type) => t1 = t2

\* the tags hold one row for a restaurant and a tag string
TypesUnique ==
    \A t1, t2 \in db.restaurant_types :
        (/\ t1.restaurant_id = t2.restaurant_id
         /\ t1.restaurant_type = t2.restaurant_type) => t1 = t2

\* C8: storage holds at most one tag row for a restaurant and a tag string,
\* and a commit that follows a commit of the same google_id with the same
\* details adds no tag row.
C8_TypesNeverDuplicated ==
    /\ []TypesUnique
    /\ [][(/\ Called
           /\ last.outcome = "ok"
           /\ last'.outcome = "ok"
           /\ last'.google_id = last.google_id
           /\ last'.data = last.data)
          => db'.restaurant_types = db.restaurant_types]_vars

\* the commit of a place whose primary type is among its types was repeated
C8_Witness ==
    /\ last.repeated
    /\ last.data = PlaceBare
    /\ TypesOf(db, last.restaurant_id) # {}

\* C9: a commit for a google_id that has a stored row leaves one row for
\* that google_id, with the id it had, which is the id returned, and with
\* every column of the record committed.
C9_UpdateInPlace ==
    [][(Called /\ last'.outcome = "ok" /\ last'.existed)
       => \A old \in RowsOf(db, last'.google_id) :
            \E new \in RowsOf(db', last'.google_id),
               record \in {restaurant_params(last'.google_id, last'.name,
                               last'.data,
                               street_parsed_of[last'.data.formattedAddress])} :
               /\ RowsOf(db', last'.google_id) = {new}
               /\ new.id = old.id
               /\ last'.restaurant_id = old.id
               /\ Cardinality(db'.restaurants) = Cardinality(db.restaurants)
               /\ \A c \in DOMAIN record : new[c] = record[c]]_vars

\* a commit went through for a google_id that an earlier commit stored under
\* another name with other details (the tag "bar" is of that commit)
C9_Witness ==
    /\ last.outcome = "ok"
    /\ last.existed
    /\ last.data = PlaceChanged
    /\ \E t \in TypesOf(db, last.restaurant_id) : t.restaurant_type = "bar"
    /\ \E r \in RowsOf(db, last.google_id) :
          r.google_name = "Cantina Y" /\ r.updated_at > 0

\* C10: when the search finds no place, process_and_store skips the name
\* without raising and the run is not aborted.
C10_NotFoundIsSkipped ==
    NoMatch(last.search) => last.outcome = "skipped" /\ pc # "aborted"

\* C11: a call whose detail record has no address, or an empty one, raises on
\* the address and leaves the four tables (restaurants, opening_hours,
\* restaurant_types, google_api_quota) as they were.
C11_MissingAddressFails ==
    [][(/\ Called
        /\ Truthy(last'.google_id)
        /\ DOMAIN last'.data # {}
        /\ Get(last'.data, "formattedAddress", NoneSeq) = NoneSeq)
       => /\ last'.outcome = "raised"
          /\ last'.failed_at = "address"
          /\ db' = db]_vars

\* a call failed on an empty address while rows and quota counts were stored
C11_Witness ==
    /\ last.outcome = "raised"
    /\ last.failed_at = "address"
    /\ last.data = PlaceEmptyAddress
    /\ db.restaurants # {}
    /\ db.google_api_quota # {}

\* the column of restaurants each optional field of the details is stored in
ColumnOf ==
    [google_display_name |-> <<"displayName", "text">>,
     business_status |-> <<"businessStatus">>,
     editorial_summary |-> <<"editorialSummary", "text">>,
     google_url |-> <<"googleMapsUri">>,
     latitude |-> <<"location", "latitude">>,
     longitude |-> <<"location", "longitude">>,
     ratings |-> <<"rating">>,
     website |-> <<"websiteUri">>,
     opening_hours_description |->
        <<"regularOpeningHours", "weekdayDescriptions">>]

\* C12: whatever optional fields the details lack, the insert raises nothing,
\* the column of each lacking field is null, and vegetarian_food is false
\* when servesVegetarianFood lacks.
C12_MissingFieldsStoredNull ==
    /\ ~returned.raised
    /\ \A row \in returned.conn.session.restaurants :
          /\ \A c \in DOMAIN ColumnOf :
                ~Has(arguments, ColumnOf[c]) => row[c] = None
          /\ "servesVegetarianFood" \notin DOMAIN arguments
                => row.vegetarian_food = FALSE

\* the entries of the output for the day d
EntriesOfDay(d) ==
    {k \in DOMAIN returned : returned[k].day_of_the_week = weekday_names[d]}

\* the periods of the input for the day d
PeriodsOfDay(d) ==
    {i \in DOMAIN arguments :
        "day" \in DOMAIN arguments[i].open /\ arguments[i].open.day = d}

\* C13: the output of the normalizer is empty when there is no period, and
\* otherwise has 7 entries, one for each day 0..6.
C13_SevenEntriesOrNone ==
    IF arguments = <<>> THEN returned = <<>>
    ELSE /\ Len(returned) = 7
         /\ \A d \in 0..6 : Cardinality(EntriesOfDay(d)) = 1

\* HH:MM written with two digits each, for the numbers of TimeSlots
TwoDigits ==
    [n \in {0, 5, 9, 18, 23, 30, 59} |->
        CASE n = 0 -> "00" [] n = 5 -> "05" [] n = 9 -> "09" [] n = 18 -> "18"
          [] n = 23 -> "23" [] n = 30 -> "30" [] n = 59 -> "59"]

\* C14: when the periods are of distinct days, one each, the output has one
\* entry per day 0..6: a day with a period is open from and to the HH:MM of
\* the period, with the name of the day, and a day without is closed with
\* null times.
C14_DistinctDaysNormalized ==
    (/\ arguments # <<>>
     /\ \A i \in DOMAIN arguments : "day" \in DOMAIN arguments[i].open
     /\ \A d \in 0..6 : Cardinality(PeriodsOfDay(d)) <= 1)
    => /\ Len(returned) = 7
       /\ \A d \in 0..6 :
            \E k \in DOMAIN returned :
               /\ EntriesOfDay(d) = {k}
               /\ \A i \in PeriodsOfDay(d) :
                     /\ returned[k].is_opened = TRUE
                     /\ returned[k].opens_at =
                           TwoDigits[arguments[i].open.hour] \o ":"
                              \o TwoDigits[arguments[i].open.minute]
                     /\ returned[k].closes_at =
                           TwoDigits[arguments[i].close.hour] \o ":"
                              \o TwoDigits[arguments[i].close.minute]
               /\ PeriodsOfDay(d) = {}
                     => /\ returned[k].is_opened = FALSE
                        /\ returned[k].opens_at = None
                        /\ returned[k].closes_at = None

\* two periods of two days were normalized, one opening at 09:05
C14_Witness ==
    /\ Len(arguments) = 2
    /\ arguments[1].open = [day |-> 3, hour |-> 9, minute |-> 5]
    /\ "day" \in DOMAIN arguments[2].open
    /\ arguments[2].open.day = 1
    /\ Len(returned) = 7
    /\ returned[1].opens_at = "09:05"

\* C15: when several periods are of the same day, the output has a single
\* entry for that day, which is that of the last of them.
C15_LastPeriodOfDayWins ==
    \A d \in 0..6 :
        Cardinality(PeriodsOfDay(d)) > 1
        => \E k \in DOMAIN returned :
              /\ EntriesOfDay(d) = {k}
              /\ returned[k] =
                    period_entry(arguments[MaxOf(PeriodsOfDay(d))], 1)

\* what parse_street_name was given
Address == AddressOf(arguments)

\* C16: parse_street_name returns an address of the nine fields for every
\* input, however malformed, and for an input that is empty or only spaces
\* every field is absent.
C16_ParserIsTotal ==
    /\ DOMAIN returned = DOMAIN EmptyAddress
    /\ (\A i \in DOMAIN Address : Address[i] \in Whitespace)
          => returned = EmptyAddress

\* an address of two spaces was parsed
C16_Witness ==
    /\ arguments = <<<<" ">>, <<" ">>>>
    /\ returned = EmptyAddress

\* C17: of an address in full, '<type> <name>, <number> - <neighborhood>,
\* <city> - <UF>, <postal code>, <country>', with a type of street_types,
\* a number of digits and at most one letter, and components without comma
\* or dash, every field is extracted as it was written, the postal code
\* without its dash, and there is no complement.
C17_WellFormedExtractedExactly ==
    returned =
       [street_type |-> Str(arguments.street_type),
        street_name |-> Str(arguments.street_name),
        street_number |-> Str(arguments.street_number),
        street_complement |-> None,
        street_neighborhood |-> Str(arguments.street_neighborhood),
        postalcode |-> Str(SelectSeq(arguments.postalcode,
                                     LAMBDA ch : ch # "-")),
        city |-> Str(arguments.city),
        state |-> Str(arguments.state),
        country |-> Str(arguments.country)]

\* 'Av. 7 de Abril, 45A - Vila Madalena, Niterói - RJ, 01305-000, Brazil'
\* was parsed
C17_Witness ==
    /\ arguments.street_type = <<"A","v",".">>
    /\ arguments.street_number = <<"4","5","A">>
    /\ arguments.postalcode = <<"0","1","3","0","5","-","0","0","0">>
    /\ returned.street_type = "Av."
    /\ returned.street_name = "7 de Abril"
    /\ returned.street_number = "45A"
    /\ returned.postalcode = "01305000"
    /\ returned.state = "RJ"

\* the length of a field of the result, 0 when it is absent
FieldLength(field) ==
    IF returned[field] = None THEN 0 ELSE Len(returned[field])

\* the length of all the extracted field values
ExtractedLength ==
    FieldLength("street_type") + FieldLength("street_name")
       + FieldLength("street_number") + FieldLength("street_complement")
       + FieldLength("street_neighborhood") + FieldLength("postalcode")
       + FieldLength("city") + FieldLength("state") + FieldLength("country")

\* the commas of the address
Commas == {i \in DOMAIN Address : Address[i] = ","}

Trimmed(nome) == IF nome = "Bar X " THEN "Bar X" ELSE nome

\* how many times a name is in a list
TimesIn(names, nome) == Cardinality({i \in DOMAIN names : names[i] = nome})

\* C19: the reconciliation succeeds for every list, the empty one too, and
\* returns a name of the list if and only if no stored record has that name,
\* names compared after trimming, and returns it once.
C19_ToCreateIsDesiredMinusStored ==
    /\ ~returned.raised
    /\ \A nome \in ReconcileNames :
          TimesIn(returned.names, nome) =
             IF /\ TimesIn(arguments.restaurants_names_list, nome) > 0
                /\ \A r \in arguments.restaurants :
                      Trimmed(r.google_name) # Trimmed(nome)
             THEN 1 ELSE 0

\* the names of a list
NamesOf(names) == {names[i] : i \in DOMAIN names}

\* C20: when the handler is through its two loops, or has left them on an
\* error of its own, the names it created and the names it removed are
\* disjoint, and the stored names with the created ones added and the removed
\* ones taken away are the names of the list.
C20_CreateRemoveGiveDesired ==
    returned.pc \in {"done", "raised"}
    => /\ NamesOf(returned.restaurants_to_put) \cap returned.to_delete = {}
       /\ (existing_names(arguments.dynamodb_list)
              \cup NamesOf(returned.restaurants_to_put)) \ returned.to_delete
          = NamesOf(arguments.restaurants_names_list)

\* C21: when add_quota_counter raises, the call of process_and_store still
\* ends well and the restaurant row of the place is stored.
C21_QuotaFailureIsNotFatal ==
    last.failed_at = "quota"
    => /\ last.outcome = "ok"
       /\ RowsOf(db, last.google_id) # {}

\* C22: a call of process_and_store that fails leaves every restaurant that
\* was stored before it with its restaurant row, its schedule rows and its
\* tag rows as they were.
C22_FailureLeavesEarlierItems ==
    [][(Called /\ last'.outcome = "raised")
       => \A r \in db.restaurants :
             /\ r \in db'.restaurants
             /\ HoursOf(db', r.id) = HoursOf(db, r.id)
             /\ TypesOf(db', r.id) = TypesOf(db, r.id)]_vars

\* the tokens of street_types that the first segment starts with
TokensOfFirst ==
    {i \in DOMAIN street_types :
        /\ Len(street_types[i]) <= Len(arguments[1])
        /\ SubSeq(arguments[1], 1, Len(street_types[i])) = street_types[i]}

\* C23: the street type is the first token of street_types that the first
\* segment starts with and the street name is the rest of the segment,
\* trimmed; when the segment starts with no token the type is absent and the
\* name is the whole segment; the type is absent or a token of street_types.
C23_StreetTypeAndName ==
    arguments # <<>>
    => /\ TokensOfFirst = {}
             => /\ returned.street.street_type = None
                /\ returned.street.street_name = Str(arguments[1])
       /\ \A i \in TokensOfFirst :
             (\A j \in TokensOfFirst : i <= j)
             => /\ returned.street.street_type = Str(street_types[i])
                /\ returned.street.street_name =
                      Str(strip(SubSeq(arguments[1], Len(street_types[i]) + 1,
                                       Len(arguments[1]))))
       /\ returned.street.street_type \in
             {None} \cup {Str(street_types[i]) : i \in DOMAIN street_types}

\* the segments 'Av. B', '12' were decomposed
C23_Witness ==
    /\ Len(arguments) = 2
    /\ arguments[1] = <<"A","v","."," ","B">>
    /\ returned.street.street_type = "Av."
    /\ returned.street.street_name = "B"
    /\ returned.result.street_type = "Av."

\* the segment that follows the street segment, its leading dash stripped
NumberCandidate ==
    IF arguments[2][1] = "-" THEN strip(Tail(arguments[2])) ELSE arguments[2]

\* s is digits, then at most one letter
IsNumber(s) ==
    /\ s # <<>>
    /\ s[1] \in Digits
    /\ \A k \in 1..(Len(s) - 1) : s[k] \in Digits
    /\ s[Len(s)] \in Digits \cup AsciiLetters

\* where a number may end in NumberCandidate when something follows it
NumberEnds ==
    {i \in 1..(Len(NumberCandidate) - 1) :
        IsNumber(SubSeq(NumberCandidate, 1, i))}

\* what follows the number that ends at i, spaces skipped
AfterNumber(i) == lstrip(From(NumberCandidate, i + 1), Whitespace)

\* <number><dash><rest>, the number ending at i
DashForm(i) ==
    /\ AfterNumber(i)[1] = "-"
    /\ lstrip(Tail(AfterNumber(i)), Whitespace) # <<>>

\* <number><space><rest>, the number ending at i
SpaceForm(i) == NumberCandidate[i + 1] \in Whitespace

\* the segments after the one that should be the number
SegmentsAfterNumber == SubSeq(arguments, 3, Len(arguments))

Remaining == returned.numbered.parts

\* the last of them, its leading dash stripped
LastSegment ==
    IF Remaining[Len(Remaining)][1] = "-"
    THEN strip(Tail(Remaining[Len(Remaining)]))
    ELSE Remaining[Len(Remaining)]

\* where ' - ' is in the last segment
DashPlaces ==
    {i \in 1..(Len(LastSegment) - 2) :
        SubSeq(LastSegment, i, i + 2) = <<" ", "-", " ">>}

\* the text of the last segment before its last ' - '
BeforeLastDash ==
    strip(SubSeq(LastSegment, 1, MaxOf(DashPlaces) - 1))

\* a segment with one dash trimmed at each end
TrimDashes(s) ==
    LET a == IF s # <<>> /\ s[1] = "-" THEN Tail(s) ELSE s
        b == IF a # <<>> /\ a[Len(a)] = "-"
             THEN SubSeq(a, 1, Len(a) - 1) ELSE a
    IN strip(b)

\* the segments of the complement in their order, those left empty dropped
ComplementSegments ==
    LET others == SubSeq(Remaining, 1, Len(Remaining) - 1)
                     \o (IF DashPlaces # {} /\ BeforeLastDash # <<>>
                         THEN <<BeforeLastDash>> ELSE <<>>)
    IN SelectSeq([i \in DOMAIN others |-> TrimDashes(others[i])],
                 LAMBDA s : s # <<>>)

\* C25: the last of the segments that remain after the number step, its
\* leading dash stripped, is the neighborhood, or what follows its last ' - '
\* when it has one, the text before then being one more segment of the
\* complement; the other segments, dashes trimmed at both ends, joined by
\* ' - ' in their order are the complement, absent when there is none.
C25_ComplementAndNeighborhood ==
    IF Remaining = <<>>
    THEN /\ returned.result.street_neighborhood = None
         /\ returned.result.street_complement = None
    ELSE /\ returned.result.street_neighborhood =
               IF DashPlaces = {} THEN Str(LastSegment)
               ELSE Str(strip(From(LastSegment, MaxOf(DashPlaces) + 3)))
         /\ returned.result.street_complement =
               IF ComplementSegments = <<>> THEN None
               ELSE Str(Join(ComplementSegments, <<" ", "-", " ">>))

\* the segments 'Rua A', 'loja 2', 'a - b - c' were decomposed
C25_Witness ==
    /\ arguments = <<<<"R","u","a"," ","A">>, <<"l","o","j","a"," ","2">>,
                     <<"a"," ","-"," ","b"," ","-"," ","c">>>>
    /\ returned.result.street_neighborhood = "c"
    /\ returned.result.street_complement = "loja 2 - a - b"

\* C26: every field of the address returned is absent or a string that is
\* not empty.
C26_NoEmptyField == \A field \in DOMAIN returned : returned[field] # ""

\* the primary type string of the details of the last call
PrimaryTypeOfLast ==
    Get(Get(last.data, "primaryTypeDisplayName", EmptyDict), "text", None)

\* C27: after a successful commit of a restaurant that was not stored, with a
\* primary type string in its details, exactly one tag of the restaurant is
\* flagged primary and it is the tag of that string.
C27_PrimaryTypeFlagged ==
    (/\ last.outcome = "ok"
     /\ ~last.existed
     /\ Truthy(PrimaryTypeOfLast))
    => \E t \in TypesOf(db, last.restaurant_id) :
          /\ t.restaurant_type = PrimaryTypeOfLast
          /\ {u \in TypesOf(db, last.restaurant_id) : u.is_primary_type} = {t}

\* the name of a stored item is a name of the list
Desired(restaurant) ==
    \E i \in DOMAIN arguments.restaurants_names_list :
       arguments.restaurants_names_list[i] = restaurant.google_name

C29_StoreSynchronized ==
    returned.pc = "done"
    => existing_names(returned.table)
          = NamesOf(arguments.restaurants_names_list)

\* the first segment of the street part of the address: what is left of the
\* address when country, postal code, state and city are cut off, up to its
\* first comma
FirstStreetSegment ==
    LET rest(address) ==
           extract_city(extract_state(extract_postalcode(extract_country(
               [address |-> Join(split_ws(address), <<" ">>),
                result |-> EmptyAddress])))).address
        first(parts) == IF parts = <<>> THEN <<>> ELSE parts[1]
    IN first(non_empty_parts(split(rest(AddressOf(arguments)), ",")))

\* C30: for an address whose first street segment does not start with 'Pç.'
\* the parser of the migration script and the parser of the DAG utilities
\* return the same structured address.
C30_ParsersAgree ==
    ~startswith(FirstStreetSegment, <<"P","ç",".">>)
    => returned.migration = returned.dag

\* 'Tv. B,12,' is parsed by both as street type Tv., name B, number 12
C30_Witness ==
    /\ AddressOf(arguments) = <<"T","v","."," ","B",",","1","2",",">>
    /\ returned.dag.street_type = "Tv."
    /\ returned.dag.street_name = "B"
    /\ returned.dag.street_number = "12"
    /\ returned.migration = returned.dag

====
